---- MODULE Spec2Model ----
(***************************************************************************)
(* Model of main2.py: a Streamlit personal-library manager.                *)
(*   - the catalog store (table `books`, add/remove/list/update-status),   *)
(*   - the external lookup fetch_books_api,                                *)
(*   - the page handlers that call them (Add Book, Manage Books,           *)
(*     Statistics, Search API).                                            *)
(* Every call is synchronous; one action is one call or one button press.  *)
(***************************************************************************)
EXTENDS Integers, Sequences, FiniteSets, TLC

VARIABLES books, files, pre, last, ui, rt

vars == <<books, files, pre, last, ui, rt>>

----------------------------------------------------------------------------
(* Bounds and input domains *)

MaxId == 3         \* largest row id handed out in the model
MaxItems == 2      \* longest `items` list in a lookup response

Titles == {"t1", "t2"}
Authors == {"a1"}
Years == {1999}
Genres == {"g1"}
NoImage == "None"
Images == {"cover.jpg"}
ImageInputs == Images \cup {NoImage}
NoPath == "None"
InputIds == 1..MaxId

\* Returned values: Python None, a list, or the rows of a query.
None == [kind |-> "None", val |-> << >>]
List(l) == [kind |-> "list", val |-> l]
Rows(b) == [kind |-> "rows", val |-> b]

----------------------------------------------------------------------------
(* Catalog store: `books` is the set of rows of table `books` *)

Book(id, title, author, year, genre, read, issued, image_path) ==
    [id |-> id, title |-> title, author |-> author, year |-> year,
     genre |-> genre, read |-> read, issued |-> issued,
     image_path |-> image_path]

\* unique=True on title: the insert is refused when the title is stored.
TitleTaken(b, title) == \E x \in b : x.title = title

Max(S) == CHOOSE m \in S : \A x \in S : x <= m

\* Variant: the id taken from the row count, which repeats after a removal.
NextId_count(b) == Cardinality(b) + 1

\* INTEGER PRIMARY KEY without the AUTOINCREMENT keyword: largest rowid + 1.
NextId(b) == IF b = {} THEN 1 ELSE Max({x.id : x \in b}) + 1

\* session.query(Book).filter(Book.id == book_id): the matching rows.
FilterById(b, book_id) == {x \in b : x.id = book_id}

ensure_dir(fs, directory) ==
    IF directory \notin fs THEN fs \cup {directory} ELSE fs

ImagePath(image) ==
    IF image = NoImage THEN NoPath ELSE "book_images" \o "/" \o image

\* Variant: an insert that overwrites the row holding the same title.
add_book_upsert(b, fs, title, author, year, genre, read, image) ==
    LET image_path == ImagePath(image)
        fs2 == IF image # NoImage
               THEN ensure_dir(fs, "book_images") \cup {image_path}
               ELSE fs
        kept == {x \in b : x.title # title}
        new_book == Book(NextId(b), title, author, year, genre, read, FALSE,
                         image_path)
    IN  [books |-> kept \cup {new_book}, files |-> fs2, exc |-> "none",
         session |-> "closed", ret |-> None]

\* Variant: the read argument is not passed on, the column default applies.
add_book_default_read(b, fs, title, author, year, genre, read, image) ==
    LET image_path == ImagePath(image)
        fs2 == IF image # NoImage
               THEN ensure_dir(fs, "book_images") \cup {image_path}
               ELSE fs
        new_book == Book(NextId(b), title, author, year, genre, FALSE, FALSE,
                         image_path)
    IN  IF TitleTaken(b, title)
        THEN [books |-> b, files |-> fs2, exc |-> "IntegrityError",
              session |-> "open", ret |-> None]
        ELSE [books |-> b \cup {new_book}, files |-> fs2, exc |-> "none",
              session |-> "closed", ret |-> None]

\* Result of one store call: the table, the file system, the exception that
\* left the call ("none" when it returned), the state of the session the
\* call opened, and the returned value.
add_book(b, fs, title, author, year, genre, read, image) ==
    LET image_path == ImagePath(image)
        fs2 == IF image # NoImage
               THEN ensure_dir(fs, "book_images") \cup {image_path}
               ELSE fs
        new_book == Book(NextId(b), title, author, year, genre, read, FALSE,
                         image_path)
    IN  IF TitleTaken(b, title)
        THEN \* session.commit() raises; session.close() is not reached
             [books |-> b, files |-> fs2, exc |-> "IntegrityError",
              session |-> "open", ret |-> None]
        ELSE [books |-> b \cup {new_book}, files |-> fs2, exc |-> "none",
              session |-> "closed", ret |-> None]

\* Variant: no `if book:` guard, session.delete(None) raises.
remove_book_noguard(b, fs, book_id) ==
    LET found == FilterById(b, book_id)
    IN  IF found # {}
        THEN [books |-> b \ {CHOOSE x \in found : TRUE}, files |-> fs,
              exc |-> "none", session |-> "closed", ret |-> None]
        ELSE [books |-> b, files |-> fs,
              exc |-> "UnmappedInstanceError", session |-> "open",
              ret |-> None]

remove_book(b, fs, book_id) ==
    LET found == FilterById(b, book_id)
    IN  IF found # {}
        THEN [books |-> b \ {CHOOSE x \in found : TRUE}, files |-> fs,
              exc |-> "none", session |-> "closed", ret |-> None]
        ELSE [books |-> b, files |-> fs,
              exc |-> "none", session |-> "closed", ret |-> None]

get_all_books(b, fs) ==
    [books |-> b, files |-> fs, exc |-> "none", session |-> "closed",
     ret |-> Rows(b)]

\* Variant: the flag is set to True whatever the argument.
update_book_status_always(b, fs, book_id, issued) ==
    LET found == FilterById(b, book_id)
    IN  IF found # {}
        THEN LET book == CHOOSE x \in found : TRUE
             IN  [books |-> (b \ {book})
                             \cup {[book EXCEPT !.issued = TRUE]},
                  files |-> fs,
                  exc |-> "none", session |-> "closed", ret |-> None]
        ELSE [books |-> b, files |-> fs,
              exc |-> "none", session |-> "closed", ret |-> None]

update_book_status(b, fs, book_id, issued) ==
    LET found == FilterById(b, book_id)
    IN  IF found # {}
        THEN LET book == CHOOSE x \in found : TRUE
             IN  [books |-> (b \ {book})
                             \cup {[book EXCEPT !.issued = issued]},
                  files |-> fs,
                  exc |-> "none", session |-> "closed", ret |-> None]
        ELSE [books |-> b, files |-> fs,
              exc |-> "none", session |-> "closed", ret |-> None]

----------------
(* External lookup *)

Secrets == {"present", "missing"}
Statuses == {200, 403, 429, 404, 500}
Response(status) == [kind |-> "response", status |-> status]
Raised(e) == [kind |-> e, status |-> 0]
NetOutcomes == {Response(s) : s \in Statuses}
               \cup {Raised(e) : e \in {"Timeout", "ConnectionError",
                                          "OtherError"}}

ItemLists == UNION {[1..n -> {"volume"}] : n \in 0..MaxItems}

Bodies == {[kind |-> "items", items |-> l] : l \in ItemLists}
          \cup {[kind |-> k, items |-> <<>>] :
                   k \in {"no_items", "items_null", "invalid_json",
                          "not_object"}}

\* data.get("items", []) on the decoded body; json() or .get may raise.
DecodeItems(body) ==
    CASE body.kind = "items"        -> [exc |-> "none", ret |-> List(body.items)]
      [] body.kind = "no_items"     -> [exc |-> "none", ret |-> List(<<>>)]
      [] body.kind = "items_null"   -> [exc |-> "none", ret |-> None]
      [] body.kind = "invalid_json" -> [exc |-> "JSONDecodeError", ret |-> None]
      [] body.kind = "not_object"   -> [exc |-> "AttributeError", ret |-> None]

\* Variant: no branch for status 429, it falls to the generic message.
fetch_books_api_no429(secret, net, body) ==
    IF secret = "missing"
    THEN [exc |-> "KeyError", ret |-> None, msgs |-> <<>>]
    ELSE CASE net = Response(200) ->
                LET d == DecodeItems(body)
                IN  IF d.exc = "none"
                    THEN [exc |-> "none", ret |-> d.ret, msgs |-> <<>>]
                    ELSE [exc |-> "none", ret |-> List(<<>>),
                          msgs |-> <<"unexpected">>]
           [] net = Response(403) ->
                [exc |-> "none", ret |-> List(<<>>), msgs |-> <<"forbidden">>]
           [] net = Raised("Timeout") ->
                [exc |-> "none", ret |-> List(<<>>), msgs |-> <<"timeout">>]
           [] net = Raised("ConnectionError") ->
                [exc |-> "none", ret |-> List(<<>>), msgs |-> <<"connection">>]
           [] net = Raised("OtherError") ->
                [exc |-> "none", ret |-> List(<<>>), msgs |-> <<"unexpected">>]
           [] OTHER ->
                [exc |-> "none", ret |-> List(<<>>), msgs |-> <<"status">>]

fetch_books_api(secret, net, body) ==
    IF secret = "missing"
    THEN \* st.secrets["books_api"] is read before the try block
         [exc |-> "KeyError", ret |-> None, msgs |-> <<>>]
    ELSE CASE net = Response(200) ->
                LET d == DecodeItems(body)
                IN  IF d.exc = "none"
                    THEN [exc |-> "none", ret |-> d.ret, msgs |-> <<>>]
                    ELSE [exc |-> "none", ret |-> List(<<>>),
                          msgs |-> <<"unexpected">>]
           [] net = Response(403) ->
                [exc |-> "none", ret |-> List(<<>>), msgs |-> <<"forbidden">>]
           [] net = Response(429) ->
                [exc |-> "none", ret |-> List(<<>>), msgs |-> <<"rate_limit">>]
           [] net = Raised("Timeout") ->
                [exc |-> "none", ret |-> List(<<>>), msgs |-> <<"timeout">>]
           [] net = Raised("ConnectionError") ->
                [exc |-> "none", ret |-> List(<<>>), msgs |-> <<"connection">>]
           [] net = Raised("OtherError") ->
                [exc |-> "none", ret |-> List(<<>>), msgs |-> <<"unexpected">>]
           [] OTHER ->
                [exc |-> "none", ret |-> List(<<>>), msgs |-> <<"status">>]

----------------------------------------------------------------------------
(* State *)

NoArgs == [none |-> TRUE]
NoStats == [total |-> -1, read |-> -1, num |-> -1, den |-> 1]

Quiet == [view |-> "none", exc |-> "none", msgs |-> <<>>, stats |-> NoStats]

\* Bookkeeping of an issued = true / issued = false pair of calls on one
\* id: the table as it was before the first call of the pair.
Idle == [phase |-> "idle", id |-> 0, before |-> {}]

RoundTrip(old, b, book_id, issued) ==
    IF issued /\ FilterById(b, book_id) # {}
    THEN [phase |-> "set", id |-> book_id, before |-> b]
    ELSE IF ~issued /\ old.phase = "set" /\ old.id = book_id
         THEN [phase |-> "done", id |-> book_id, before |-> old.before]
         ELSE Idle

Init ==
    /\ books = {}
    /\ files = {}
    /\ pre = {}
    /\ last = [op |-> "init", args |-> NoArgs, exc |-> "none",
               session |-> "closed", ret |-> None, msgs |-> <<>>]
    /\ ui = Quiet
    /\ rt = Idle

Call(op, args, r) ==
    [op |-> op, args |-> args, exc |-> r.exc, session |-> r.session,
     ret |-> r.ret, msgs |-> <<>>]

FetchCall(inp, r) ==
    [op |-> "fetch_books_api", args |-> inp, exc |-> r.exc,
     session |-> "none", ret |-> r.ret, msgs |-> r.msgs]

AddArgs(title, author, year, genre, read, image) ==
    [title |-> title, author |-> author, year |-> year, genre |-> genre,
     read |-> read, image |-> image]

----------------------------------------------------------------------------
(* Direct calls of the store and the lookup *)

AddBook ==
    \E title \in Titles, author \in Authors, year \in Years,
       genre \in Genres, read \in BOOLEAN, image \in ImageInputs :
        LET r == add_book(books, files, title, author, year, genre, read, image)
        IN  /\ TitleTaken(books, title) \/ NextId(books) <= MaxId
            /\ pre' = books
            /\ books' = r.books
            /\ files' = r.files
            /\ last' = Call("add_book",
                            AddArgs(title, author, year, genre, read, image), r)
            /\ rt' = Idle
            /\ ui' = Quiet

RemoveBook ==
    \E book_id \in InputIds :
        LET r == remove_book(books, files, book_id)
        IN  /\ pre' = books
            /\ books' = r.books
            /\ files' = r.files
            /\ last' = Call("remove_book", [book_id |-> book_id], r)
            /\ rt' = Idle
            /\ ui' = Quiet

GetAllBooks ==
    LET r == get_all_books(books, files)
    IN  /\ pre' = books
        /\ books' = r.books
        /\ files' = r.files
        /\ last' = Call("get_all_books", NoArgs, r)
        /\ rt' = Idle
        /\ ui' = Quiet

UpdateBookStatus ==
    \E book_id \in InputIds, issued \in BOOLEAN :
        LET r == update_book_status(books, files, book_id, issued)
        IN  /\ pre' = books
            /\ books' = r.books
            /\ files' = r.files
            /\ last' = Call("update_book_status",
                            [book_id |-> book_id, issued |-> issued], r)
            /\ rt' = RoundTrip(rt, books, book_id, issued)
            /\ ui' = Quiet

\* The request is not sent when the key is missing, and the body is only
\* decoded on status 200, so the inputs are enumerated in that shape.
NotSent == [kind |-> "not_sent", status |-> 0]
NoBody == [kind |-> "none", items |-> <<>>]
FetchInputs ==
    {[secret |-> "missing", net |-> NotSent, body |-> NoBody]}
    \cup {[secret |-> "present", net |-> n, body |-> NoBody] :
             n \in NetOutcomes \ {Response(200)}}
    \cup {[secret |-> "present", net |-> Response(200), body |-> b] :
             b \in Bodies}

FetchBooksApi ==
    \E inp \in FetchInputs :
        LET r == fetch_books_api(inp.secret, inp.net, inp.body)
        IN  /\ pre' = books
            /\ UNCHANGED <<books, files>>
            /\ last' = FetchCall(inp, r)
            /\ rt' = Idle
            /\ ui' = [Quiet EXCEPT !.msgs = r.msgs]

----------------------------------------------------------------------------
(* Page handlers: one button press or one page render *)

\* "Add Book" button: add_book, then the success message.
AddBookPage ==
    \E title \in Titles, author \in Authors, year \in Years,
       genre \in Genres, read \in BOOLEAN, image \in ImageInputs :
        LET r == add_book(books, files, title, author, year, genre, read, image)
        IN  /\ TitleTaken(books, title) \/ NextId(books) <= MaxId
            /\ pre' = books
            /\ books' = r.books
            /\ files' = r.files
            /\ last' = Call("add_book",
                            AddArgs(title, author, year, genre, read, image), r)
            /\ rt' = Idle
            /\ ui' = IF r.exc = "none"
                     THEN [Quiet EXCEPT !.view = "Add Book",
                                        !.msgs = <<"added">>]
                     ELSE [Quiet EXCEPT !.view = "Add Book",
                                        !.exc = r.exc]

\* "Remove Book" button; the form is only drawn when the table has rows.
ManageBooksPage ==
    \E book_id \in InputIds :
        LET listed == get_all_books(books, files)
            r == remove_book(listed.books, listed.files, book_id)
        IN  /\ listed.ret.val # {}
            /\ pre' = books
            /\ books' = r.books
            /\ files' = r.files
            /\ last' = Call("remove_book", [book_id |-> book_id], r)
            /\ rt' = Idle
            /\ ui' = [Quiet EXCEPT !.view = "Manage Books",
                                   !.msgs = <<"removed">>]

\* sum(book.read for book in books)
RECURSIVE SumRead(_)
SumRead(rows) ==
    IF rows = {} THEN 0
    ELSE LET book == CHOOSE x \in rows : TRUE
         IN  (IF book.read THEN 1 ELSE 0) + SumRead(rows \ {book})

\* Python's a / b as the exact fraction num/den; a zero divisor raises.
TrueDiv(a, b) ==
    IF b = 0 THEN [exc |-> "ZeroDivisionError", num |-> 0, den |-> 1]
    ELSE [exc |-> "none", num |-> a, den |-> b]

\* Variant: the division without the `if total_books > 0` guard.
read_percentage_unguarded(read_books, total_books) ==
    LET q == TrueDiv(read_books, total_books)
    IN  [q EXCEPT !.num = q.num * 100]

\* (read_books / total_books) * 100 if total_books > 0 else 0
read_percentage(read_books, total_books) ==
    IF total_books > 0
    THEN LET q == TrueDiv(read_books, total_books)
         IN  [q EXCEPT !.num = q.num * 100]
    ELSE [exc |-> "none", num |-> 0, den |-> 1]

StatisticsPage ==
    LET r == get_all_books(books, files)
        total_books == Cardinality(r.ret.val)
        read_books == SumRead(r.ret.val)
        p == read_percentage(read_books, total_books)
    IN  /\ pre' = books
        /\ books' = r.books
        /\ files' = r.files
        /\ last' = Call("get_all_books", NoArgs, r)
        /\ rt' = Idle
        /\ ui' = IF p.exc # "none"
                 THEN [Quiet EXCEPT !.view = "Statistics", !.exc = p.exc]
                 ELSE [view |-> "Statistics", exc |-> "none",
                       msgs |-> IF total_books > 0 THEN <<"genre_chart">>
                                ELSE <<"no_books_warning">>,
                       stats |-> [total |-> total_books, read |-> read_books,
                                  num |-> p.num, den |-> p.den]]

\* "Search API" button: the lookup, then one entry per item or the
\* "no books found" warning.
SearchApi ==
    \E inp \in FetchInputs :
        LET r == fetch_books_api(inp.secret, inp.net, inp.body)
        IN  /\ pre' = books
            /\ UNCHANGED <<books, files>>
            /\ last' = FetchCall(inp, r)
            /\ rt' = Idle
            /\ ui' = IF r.exc # "none"
                     THEN [Quiet EXCEPT !.view = "Search", !.exc = r.exc]
                     ELSE [Quiet EXCEPT
                             !.view = "Search",
                             !.msgs = IF r.ret.val # << >>
                                      THEN r.msgs \o [k \in 1..Len(r.ret.val)
                                                        |-> "result"]
                                      ELSE r.msgs \o <<"no_books_found">>]

Next ==
    \/ AddBook
    \/ RemoveBook
    \/ GetAllBooks
    \/ UpdateBookStatus
    \/ FetchBooksApi
    \/ AddBookPage
    \/ ManageBooksPage
    \/ StatisticsPage
    \/ SearchApi

Spec == Init /\ [][Next]_vars

----------------------------------------------------------------------------
(* Properties *)

StoreOps == {"add_book", "remove_book", "get_all_books", "update_book_status"}

\* C1: add_book with a title that is already stored is rejected with the
\* duplicate-title error (IntegrityError) and the table after the call is
\* the table before it.
C1_DuplicateTitleRejected ==
    (last.op = "add_book" /\ TitleTaken(pre, last.args.title))
        => (last.exc = "IntegrityError" /\ books = pre)

C1_Witness ==
    /\ last.op = "add_book"
    /\ last.exc = "IntegrityError"
    /\ last.args.image # NoImage
    /\ Cardinality(pre) = 2

\* C2: after add_book with a title that was not stored, get_all_books
\* returns exactly one row with that title, carrying the given author, year,
\* genre and read flag with issued = false, and every row stored before the
\* call is still returned unchanged.
C2_AddedListedOnce ==
    (last.op = "add_book" /\ ~TitleTaken(pre, last.args.title))
        => LET listed == get_all_books(books, files).ret.val
               mine == {x \in listed : x.title = last.args.title}
           IN  /\ last.exc = "none"
               /\ Cardinality(mine) = 1
               /\ \A x \in mine :
                     /\ x.author = last.args.author
                     /\ x.year = last.args.year
                     /\ x.genre = last.args.genre
                     /\ x.read = last.args.read
                     /\ x.issued = FALSE
               /\ pre \subseteq listed
               /\ listed \ mine = pre

C2_Witness ==
    /\ last.op = "add_book"
    /\ last.exc = "none"
    /\ last.args.read
    /\ Cardinality(pre) = 1
    /\ Cardinality(books) = 2

\* C3: in every reachable state no two stored rows share a title and no two
\* stored rows share an id.
C3_UniqueTitleAndId ==
    \A x \in books : \A y \in books :
        x # y => (x.title # y.title /\ x.id # y.id)

C3_Witness ==
    /\ last.op = "add_book"
    /\ last.exc = "none"
    /\ Cardinality(books) = 2
    /\ NextId(pre) > Cardinality(pre) + 1

\* C4: remove_book and update_book_status on an id that no stored row has
\* leave the table unchanged and report no error.
C4_AbsentIdIsNoOp ==
    (/\ last.op \in {"remove_book", "update_book_status"}
     /\ \A x \in pre : x.id # last.args.book_id)
        => (books = pre /\ last.exc = "none" /\ ui.exc = "none")

C4_Witness ==
    /\ last.op = "remove_book"
    /\ Cardinality(pre) = 2
    /\ \A x \in pre : x.id # last.args.book_id
    /\ ui.view = "Manage Books"

\* C5: update_book_status(i, true) on a stored id makes that row's issued
\* flag true and a following update_book_status(i, false) makes it false;
\* across both calls nothing else in the table changes and no row is added
\* or removed.
C5_IssuedRoundTrip ==
    LET Expected(v) == {IF x.id = rt.id THEN [x EXCEPT !.issued = v] ELSE x :
                           x \in rt.before}
    IN  /\ rt.phase = "set" =>
              /\ \E x \in rt.before : x.id = rt.id
              /\ \A x \in books : x.id = rt.id => x.issued
              /\ books = Expected(TRUE)
        /\ rt.phase = "done" =>
              /\ \A x \in books : x.id = rt.id => ~x.issued
              /\ books = Expected(FALSE)

C5_Witness ==
    /\ rt.phase = "done"
    /\ Cardinality(books) = 2
    /\ last.op = "update_book_status"

\* C6: fetch_books_api never raises to its caller, whatever the outcome of
\* reading the API key, the request, the status or the decoding.
C6_FetchNeverRaises ==
    last.op = "fetch_books_api" => last.exc = "none"

\* C7: when the request completes with a status other than 200, times out
\* or hits a connection error, fetch_books_api returns an empty list and
\* emits exactly one message, of the class of the failure.
C7_FailureClassified ==
    LET net == last.args.net
        expected == CASE net = Response(403) -> "forbidden"
                      [] net = Response(429) -> "rate_limit"
                      [] net = Raised("Timeout") -> "timeout"
                      [] net = Raised("ConnectionError") -> "connection"
                      [] OTHER -> "status"
    IN  (/\ last.op = "fetch_books_api"
         /\ net \in {Response(st) : st \in Statuses \ {200}}
                    \cup {Raised("Timeout"), Raised("ConnectionError")})
            => /\ last.exc = "none"
               /\ last.ret = List(<<>>)
               /\ last.msgs = <<expected>>
               /\ ui.exc = "none"
               /\ Len(SelectSeq(ui.msgs, LAMBDA m : m = expected)) = 1

C7_Witness ==
    /\ last.op = "fetch_books_api"
    /\ last.args.net = Response(429)
    /\ ui.view = "Search"
    /\ ui.msgs = <<"rate_limit", "no_books_found">>

\* C8: pressing Add Book with a title that is already stored does not let
\* the duplicate-title error leave the Add Book handler and does not show
\* the "Added" message.
C8_AddBookFailureCaught ==
    (ui.view = "Add Book" /\ TitleTaken(pre, last.args.title))
        => (ui.exc = "none" /\ ui.msgs # <<"added">>)

\* C9: the Statistics view never divides by zero: with no rows it reports
\* total 0, 0 percent and the no-books warning; with n > 0 rows of which r
\* are read it reports r/n*100, between 0 and 100.
C9_StatisticsSafe ==
    ui.view = "Statistics"
        => LET n == Cardinality(books)
               r == Cardinality({x \in books : x.read})
               st == ui.stats
           IN  /\ ui.exc = "none"
               /\ st.total = n
               /\ st.den > 0
               /\ n = 0 => (st.num = 0 /\ ui.msgs = <<"no_books_warning">>)
               /\ n > 0 => /\ st.num * n = r * 100 * st.den
                           /\ 0 <= st.num
                           /\ st.num <= 100 * st.den
                           /\ ui.msgs = <<"genre_chart">>

C9_Witness ==
    /\ ui.view = "Statistics"
    /\ books = {}
    /\ ui.stats.total = 0

\* C10: every store call releases the session it opened before control
\* leaves the call, on every path.
C10_SessionReleased ==
    last.op \in StoreOps => last.session = "closed"

====
